---- MODULE Spec2Model ----
(***************************************************************************)
(* Connect-four rules engine (ConnectState.py) and Monte Carlo tree search *)
(* engine (Mcts.py), driven by a caller in the way play_game drives them.  *)
(***************************************************************************)
EXTENDS Integers, Sequences, FiniteSets, TLC

(* ------------------------------ meta.py -------------------------------- *)
ROWS == 6
COLS == 7
INF == 1000000000            \* stands for float('inf'): above every finite UCT value

PLAYERS == [none |-> 0, one |-> 1, two |-> 2]
OUTCOMES == [none |-> 0, one |-> 1, two |-> 2, draw |-> 3]

(* ------------------------------ bounds --------------------------------- *)
MaxMoves == 6                \* caller moves explored beyond the empty board or an opening
MaxMisuse == 2               \* make_move calls on a full column that are explored
MaxRollouts == 4             \* search iterations explored over the life of an engine
MaxTime == 2                 \* largest time_limit handed to run_search, in clock ticks

RowIdx == 0 .. ROWS - 1
ColIdx == 0 .. COLS - 1
None == <<>>

(* Recorded games the caller can replay from the empty board: the first 37  *)
(* moves of a game that can still end in a draw, a win of either player or  *)
(* a diagonal completed from its interior.                                  *)
Openings ==
  << <<0, 4, 5, 4, 0, 3, 3, 5, 5, 3, 0, 0, 1, 2, 4, 4, 0, 5, 3, 1, 0, 4, 5, 6,
       6, 5, 6, 3, 1, 4, 2, 1, 3, 6, 1, 2, 6>> >>

VARIABLES
  state,          \* the caller's ConnectState
  k,              \* history: number of make_move calls applied to `state`
  opening,        \* history: index of the opening replayed, 0 when none
  misuse,         \* history: number of make_move calls made on a full column
  raised,         \* exception raised by the caller's last call, "none" when it returned
  pc,             \* "init" before the engine exists, then "idle", "search", "playout"
  root_state,     \* MonteCarloTreeSearch.root_state
  root_node,      \* MonteCarloTreeSearch.root_node, as an index into nodes
  nodes,          \* the TreeNode objects reachable from root_node
  rollout_count,  \* MonteCarloTreeSearch.rollout_count
  execution_time, \* MonteCarloTreeSearch.execution_time
  time_limit,     \* run_search: its argument
  elapsed,        \* run_search: time.process_time() - start_time
  node,           \* run_search: the node returned by select_promising_node
  game_state,     \* run_search: the scratch state returned with it
  run_start,      \* history: rollout_count when the running run_search was called
  performed       \* history: number of perform_move calls

callerVars == <<state, k, opening, misuse, raised>>
engineVars == <<pc, root_state, root_node, nodes, rollout_count, execution_time,
                time_limit, elapsed, node, game_state, run_start, performed>>
vars == <<state, k, opening, misuse, raised, pc, root_state, root_node, nodes,
          rollout_count, execution_time, time_limit, elapsed, node, game_state,
          run_start, performed>>

(* --------------------------- ConnectState.py --------------------------- *)
\* Python list indexing: a negative index counts from the end.
PyIdx(i, n) == IF i < 0 THEN i + n ELSE i

Cell(board, r, c) == board[PyIdx(r, ROWS)][c]

ConnectState ==
  [board |-> [r \in RowIdx |-> [c \in ColIdx |-> 0]],
   current_player |-> PLAYERS.one,
   column_heights |-> [c \in ColIdx |-> ROWS - 1],
   last_move |-> None]

\* board[row][col] = ... raises IndexError below -ROWS, before anything is assigned
make_move_raises(s, col) == s.column_heights[col] < 0 - ROWS

make_move_flipless(s, col) ==
  LET row == s.column_heights[col] IN
  IF make_move_raises(s, col) THEN s
  ELSE [board |-> [s.board EXCEPT ![PyIdx(row, ROWS)][col] = s.current_player],
        last_move |-> <<row, col>>,
        column_heights |-> [s.column_heights EXCEPT ![col] = @ - 1],
        current_player |-> s.current_player]

make_move_clamped(s, col) ==
  LET row == s.column_heights[col] IN
  IF make_move_raises(s, col) THEN s
  ELSE [board |-> [s.board EXCEPT ![PyIdx(row, ROWS)][col] = s.current_player],
        last_move |-> <<row, col>>,
        column_heights |-> [s.column_heights EXCEPT ![col] = IF @ > 0 THEN @ - 1 ELSE 0],
        current_player |-> IF s.current_player = PLAYERS.one
                           THEN PLAYERS.two ELSE PLAYERS.one]

make_move(s, col) ==
  LET row == s.column_heights[col] IN
  IF make_move_raises(s, col) THEN s
  ELSE [board |-> [s.board EXCEPT ![PyIdx(row, ROWS)][col] = s.current_player],
        last_move |-> <<row, col>>,
        column_heights |-> [s.column_heights EXCEPT ![col] = @ - 1],
        current_player |-> IF s.current_player = PLAYERS.one
                           THEN PLAYERS.two ELSE PLAYERS.one]

RECURSIVE ColumnsFrom(_, _)
ColumnsFrom(s, col) ==
  IF col >= COLS THEN <<>>
  ELSE (IF s.board[0][col] = 0 THEN <<col>> ELSE <<>>) \o ColumnsFrom(s, col + 1)

available_moves(s) == ColumnsFrom(s, 0)

\* the `while` loops of is_winning_move: cells of `player` met walking from
\* (r, c) in steps of (dr, dc) until the grid ends or another owner is met
RECURSIVE Extend(_, _, _, _, _, _)
Extend(board, player, r, c, dr, dc) ==
  IF /\ 0 <= r + dr /\ r + dr < ROWS
     /\ 0 <= c + dc /\ c + dc < COLS
     /\ Cell(board, r + dr, c + dc) = player
  THEN 1 + Extend(board, player, r + dr, c + dc, dr, dc)
  ELSE 0

\* the horizontal loop tests only the column bound and reads board[r][c + d]
RECURSIVE ExtendRow(_, _, _, _, _)
ExtendRow(board, player, r, c, d) ==
  IF 0 <= c + d /\ c + d < COLS /\ Cell(board, r, c + d) = player
  THEN 1 + ExtendRow(board, player, r, c + d, d)
  ELSE 0

Diagonals == {<<-1, -1>>, <<-1, 1>>, <<1, -1>>, <<1, 1>>}

is_winning_move(s, row, col) ==
  LET player == Cell(s.board, row, col) IN
  \/ 1 + ExtendRow(s.board, player, row, col, -1)
       + ExtendRow(s.board, player, row, col, 1) >= 4
  \/ 1 + Extend(s.board, player, row, col, -1, 0)
       + Extend(s.board, player, row, col, 1, 0) >= 4
  \/ \E d \in Diagonals : 1 + Extend(s.board, player, row, col, d[1], d[2]) >= 4

check_victory(s) ==
  IF s.last_move # None /\ is_winning_move(s, s.last_move[1], s.last_move[2])
  THEN Cell(s.board, s.last_move[1], s.last_move[2])
  ELSE 0

is_game_over_win_only(s) == check_victory(s) # 0

is_game_over(s) == check_victory(s) # 0 \/ available_moves(s) = <<>>

get_winner_inverted(s) ==
  IF available_moves(s) # <<>> /\ check_victory(s) = 0 THEN OUTCOMES.draw
  ELSE IF check_victory(s) = PLAYERS.one THEN OUTCOMES.one ELSE OUTCOMES.two

get_winner(s) ==
  IF available_moves(s) = <<>> /\ check_victory(s) = 0 THEN OUTCOMES.draw
  ELSE IF check_victory(s) = PLAYERS.one THEN OUTCOMES.one ELSE OUTCOMES.two

(* ------------------------------- Mcts.py ------------------------------- *)
\* TreeNode(action, parent_node); parent_node 0 is None.  The fields outcome
\* and nodes_expanded are written once by the constructor and never read.
TreeNode(action, parent_node) ==
  [action |-> action, parent_node |-> parent_node,
   visit_count |-> 0, win_count |-> 0, children |-> <<>>]

\* fixed-point arithmetic for the UCT formula, in units of 1 / Scale
Scale == 10000
LnScaled == <<0, 6931, 10986, 13862, 16094, 17917, 19459, 20794, 21972, 23025,
              23978, 24849>>                      \* floor(Scale * ln n), n = 1 .. 12

RECURSIVE SqrtBetween(_, _, _)
SqrtBetween(x, lo, hi) ==                         \* lo * lo <= x < hi * hi
  IF hi - lo <= 1 THEN lo
  ELSE LET mid == (lo + hi) \div 2 IN
       IF mid * mid <= x THEN SqrtBetween(x, mid, hi) ELSE SqrtBetween(x, lo, mid)

ISqrt(x) == SqrtBetween(x, 0, 32768)

calculate_value_zero(ns, n) ==
  IF ns[n].visit_count = 0 THEN 0
  ELSE (ns[n].win_count * Scale) \div ns[n].visit_count
       + ISqrt((2 * LnScaled[ns[ns[n].parent_node].visit_count] * Scale)
               \div ns[n].visit_count)

\* EXPLORATION is the default argument, bound to sqrt(2) when the class body runs
calculate_value(ns, n) ==
  IF ns[n].visit_count = 0 THEN INF
  ELSE (ns[n].win_count * Scale) \div ns[n].visit_count
       + ISqrt((2 * LnScaled[ns[ns[n].parent_node].visit_count] * Scale)
               \div ns[n].visit_count)

ChildIds(ns, n) == {ns[n].children[a] : a \in DOMAIN ns[n].children}

\* the `while current_node.children` loop of select_promising_node: every
\* place it can stop, over the random choices among the best children
RECURSIVE Descend(_, _, _)
Descend(ns, n, gs) ==
  IF DOMAIN ns[n].children = {} THEN {[node |-> n, game_state |-> gs, fresh |-> FALSE]}
  ELSE LET children_nodes == ChildIds(ns, n)
           max_value == CHOOSE v \in {calculate_value(ns, c) : c \in children_nodes} :
                          \A c \in children_nodes : calculate_value(ns, c) <= v
           best_nodes == {c \in children_nodes : calculate_value(ns, c) = max_value}
       IN UNION {LET moved == make_move(gs, ns[c].action) IN
                 IF ns[c].visit_count = 0
                 THEN {[node |-> c, game_state |-> moved, fresh |-> TRUE]}
                 ELSE Descend(ns, c, moved) : c \in best_nodes}

\* TreeNode.add_children on the node list: the children get the next indices
add_children(ns, parent, child_nodes) ==
  LET base == Len(ns)
      added == [a \in {child_nodes[i].action : i \in 1 .. Len(child_nodes)} |->
                  base + (CHOOSE i \in 1 .. Len(child_nodes) : child_nodes[i].action = a)]
      merged == [a \in DOMAIN ns[parent].children \cup DOMAIN added |->
                  IF a \in DOMAIN added THEN added[a] ELSE ns[parent].children[a]]
  IN [(ns \o child_nodes) EXCEPT ![parent].children = merged]

expand_node_unchecked(ns, parent_node, gs) ==
  LET moves == available_moves(gs) IN
  add_children(ns, parent_node,
               [i \in 1 .. Len(moves) |-> TreeNode(moves[i], parent_node)])

\* expand_node: the node list after it; unchanged when it returns False
expand_node(ns, parent_node, gs) ==
  IF is_game_over(gs) THEN ns
  ELSE LET moves == available_moves(gs) IN
       add_children(ns, parent_node,
                    [i \in 1 .. Len(moves) |-> TreeNode(moves[i], parent_node)])

RECURSIVE Climb(_, _, _, _)
Climb(ns, n, reward, outcome) ==
  IF n = 0 THEN ns
  ELSE Climb([ns EXCEPT ![n].visit_count = @ + 1, ![n].win_count = @ + reward],
             ns[n].parent_node,
             IF outcome = OUTCOMES.draw THEN 0 ELSE 1 - reward,
             outcome)

RECURSIVE ClimbNegating(_, _, _, _)
ClimbNegating(ns, n, reward, outcome) ==
  IF n = 0 THEN ns
  ELSE ClimbNegating([ns EXCEPT ![n].visit_count = @ + 1, ![n].win_count = @ + reward],
                     ns[n].parent_node,
                     IF outcome = OUTCOMES.draw THEN 0 ELSE 0 - reward,
                     outcome)

backpropagate_negating(ns, n, current_turn, outcome) ==
  ClimbNegating(ns, n, IF outcome = current_turn THEN 0 ELSE 1, outcome)

backpropagate_leaf_only(ns, n, current_turn, outcome) ==
  [ns EXCEPT ![n].visit_count = @ + 1,
             ![n].win_count = @ + (IF outcome = current_turn THEN 0 ELSE 1)]

backpropagate_from_parent(ns, n, current_turn, outcome) ==
  Climb(ns, ns[n].parent_node, IF outcome = current_turn THEN 0 ELSE 1, outcome)

backpropagate(ns, n, current_turn, outcome) ==
  Climb(ns, n, IF outcome = current_turn THEN 0 ELSE 1, outcome)

RECURSIVE depth(_, _)
depth(ns, n) ==
  IF DOMAIN ns[n].children = {} THEN 1
  ELSE 1 + (CHOOSE d \in {depth(ns, c) : c \in ChildIds(ns, n)} :
              \A c \in ChildIds(ns, n) : depth(ns, c) <= d)

get_max_depth == depth(nodes, root_node)

get_statistics == <<rollout_count, execution_time, get_max_depth>>

\* determine_best_move: max() over no children raises ValueError
determine_best_move_raises ==
  ~is_game_over(root_state) /\ DOMAIN nodes[root_node].children = {}

\* determine_best_move: the values it can return, over the random choice
\* among the most visited children; none when it raises
determine_best_move ==
  IF is_game_over(root_state) THEN {-1}
  ELSE IF determine_best_move_raises THEN {}
  ELSE LET children_nodes == ChildIds(nodes, root_node)
           max_visits == CHOOSE v \in {nodes[c].visit_count : c \in children_nodes} :
                           \A c \in children_nodes : nodes[c].visit_count <= v
           best_children == {c \in children_nodes : nodes[c].visit_count = max_visits}
       IN {nodes[c].action : c \in best_children}

(* ------------------------------ the caller ----------------------------- *)
RECURSIVE Replay(_, _)
Replay(s, moves) ==
  IF moves = <<>> THEN s ELSE Replay(make_move(s, Head(moves)), Tail(moves))

InSeq(x, seq) == \E i \in 1 .. Len(seq) : seq[i] = x

OpeningLen == IF opening = 0 THEN 0 ELSE Len(Openings[opening])

Init ==
  /\ state = ConnectState
  /\ k = 0
  /\ opening = 0
  /\ misuse = 0
  /\ raised = "none"
  /\ pc = "init"
  /\ root_state = ConnectState
  /\ root_node = 0
  /\ nodes = <<>>
  /\ rollout_count = 0
  /\ execution_time = 0
  /\ time_limit = 0
  /\ elapsed = 0
  /\ node = 0
  /\ game_state = ConnectState
  /\ run_start = 0
  /\ performed = 0

\* the caller replays a recorded game, one make_move per recorded column
PlayOpening(i) ==
  /\ pc = "init"
  /\ k = 0
  /\ state' = Replay(state, Openings[i])
  /\ k' = Len(Openings[i])
  /\ opening' = i
  /\ UNCHANGED <<misuse, raised>>
  /\ UNCHANGED engineVars

\* state.make_move(col) for a column reported by available_moves()
MakeMove(col) ==
  /\ pc = "init"
  /\ InSeq(col, available_moves(state))
  /\ k - OpeningLen < MaxMoves
  /\ state' = make_move(state, col)
  /\ k' = k + 1
  /\ raised' = "none"
  /\ UNCHANGED <<opening, misuse>>
  /\ UNCHANGED engineVars

\* state.make_move(col) for a full column
MakeMoveFull(col) ==
  /\ pc = "init"
  /\ state.column_heights[col] < 0
  /\ misuse < MaxMisuse
  /\ state' = make_move(state, col)
  /\ raised' = IF make_move_raises(state, col) THEN "IndexError" ELSE "none"
  /\ misuse' = misuse + 1
  /\ UNCHANGED <<k, opening>>
  /\ UNCHANGED engineVars

(* ------------------------------ the engine ----------------------------- *)
\* mcts = MonteCarloTreeSearch(state), on the position an opening leads to
Construct ==
  /\ pc = "init"
  /\ opening # 0
  /\ root_state' = state
  /\ nodes' = <<TreeNode(None, 0)>>
  /\ root_node' = 1
  /\ execution_time' = 0
  /\ rollout_count' = 0
  /\ pc' = "idle"
  /\ UNCHANGED <<time_limit, elapsed, node, game_state, run_start, performed>>
  /\ UNCHANGED callerVars

\* perform_move(action).  A fresh root has no reference to the old tree, which
\* leaves the heap with it; a reused child keeps the old tree alive through
\* its parent_node.
perform_move_nodes_reset(action) ==
  IF action \in DOMAIN nodes[root_node].children
  THEN [nodes EXCEPT ![nodes[root_node].children[action]].visit_count = 0]
  ELSE <<TreeNode(None, 0)>>

perform_move_nodes(action) ==
  IF action \in DOMAIN nodes[root_node].children THEN nodes ELSE <<TreeNode(None, 0)>>

perform_move_root(action) ==
  IF action \in DOMAIN nodes[root_node].children
  THEN nodes[root_node].children[action] ELSE 1

perform_move_state_reuse_only(action) ==
  IF action \in DOMAIN nodes[root_node].children
  THEN make_move(root_state, action) ELSE root_state

perform_move_state(action) == make_move(root_state, action)

\* play_game: state.make_move(move); mcts.perform_move(move)
CallerMove(col) ==
  /\ pc = "idle"
  /\ InSeq(col, available_moves(state))
  /\ k - OpeningLen < MaxMoves
  /\ state' = make_move(state, col)
  /\ k' = k + 1
  /\ raised' = "none"
  /\ root_state' = perform_move_state(col)
  /\ root_node' = perform_move_root(col)
  /\ nodes' = perform_move_nodes(col)
  /\ performed' = performed + 1
  /\ UNCHANGED <<opening, misuse, pc, rollout_count, execution_time, time_limit,
                 elapsed, node, game_state, run_start>>

TimeLimits == -1 .. MaxTime

\* run_search(time_limit) up to its first reading of the clock
RunSearch(limit) ==
  /\ pc = "idle"
  /\ time_limit' = limit
  /\ elapsed' = 0
  /\ run_start' = rollout_count
  /\ pc' = "search"
  /\ UNCHANGED <<root_state, root_node, nodes, rollout_count, execution_time, node,
                 game_state, performed>>
  /\ UNCHANGED callerVars

\* the loop test succeeds: select_promising_node()
Select ==
  /\ pc = "search"
  /\ elapsed < time_limit
  /\ rollout_count < MaxRollouts
  /\ \E d \in Descend(nodes, root_node, root_state) :
       IF d.fresh
       THEN /\ nodes' = nodes
            /\ node' = d.node
            /\ game_state' = d.game_state
       ELSE LET expanded == expand_node(nodes, d.node, d.game_state) IN
            /\ nodes' = expanded
            /\ IF is_game_over(d.game_state)
               THEN /\ node' = d.node
                    /\ game_state' = d.game_state
               ELSE \E c \in ChildIds(expanded, d.node) :
                      /\ node' = c
                      /\ game_state' = make_move(d.game_state, expanded[c].action)
  /\ pc' = "playout"
  /\ UNCHANGED <<root_state, root_node, rollout_count, execution_time, time_limit,
                 elapsed, run_start, performed>>
  /\ UNCHANGED callerVars

PlayoutMoveOnRoot ==
  /\ pc = "playout"
  /\ ~is_game_over(game_state)
  /\ \E i \in 1 .. Len(available_moves(game_state)) :
       game_state' = make_move(game_state, available_moves(game_state)[i])
  /\ root_state' = game_state'
  /\ UNCHANGED <<pc, root_node, nodes, rollout_count, execution_time,
                 time_limit, elapsed, node, run_start, performed>>
  /\ UNCHANGED callerVars

\* simulate_random_playout: one turn of its loop
PlayoutMove ==
  /\ pc = "playout"
  /\ ~is_game_over(game_state)
  /\ \E i \in 1 .. Len(available_moves(game_state)) :
       game_state' = make_move(game_state, available_moves(game_state)[i])
  /\ UNCHANGED <<pc, root_state, root_node, nodes, rollout_count, execution_time,
                 time_limit, elapsed, node, run_start, performed>>
  /\ UNCHANGED callerVars

\* the playout returns get_winner(); backpropagate; rollout_count += 1; the
\* clock is read again for the next loop test
Backpropagate ==
  /\ pc = "playout"
  /\ is_game_over(game_state)
  /\ nodes' = backpropagate(nodes, node, game_state.current_player, get_winner(game_state))
  /\ rollout_count' = rollout_count + 1
  /\ \E tick \in 0 .. 1 : elapsed' = elapsed + tick
  /\ node' = 0
  /\ game_state' = ConnectState
  /\ pc' = "search"
  /\ UNCHANGED <<root_state, root_node, execution_time, time_limit, run_start, performed>>
  /\ UNCHANGED callerVars

\* the loop test fails: execution_time is stored and run_search returns
Return ==
  /\ pc = "search"
  /\ ~(elapsed < time_limit)
  /\ execution_time' = elapsed
  /\ time_limit' = 0
  /\ elapsed' = 0
  /\ run_start' = 0
  /\ pc' = "idle"
  /\ UNCHANGED <<root_state, root_node, nodes, rollout_count, node, game_state, performed>>
  /\ UNCHANGED callerVars

Next ==
  \/ \E i \in 1 .. Len(Openings) : PlayOpening(i)
  \/ Construct
  \/ \E col \in ColIdx : CallerMove(col)
  \/ \E limit \in TimeLimits : RunSearch(limit)
  \/ Select
  \/ PlayoutMove
  \/ Backpropagate
  \/ Return

Spec == Init /\ [][Next]_vars

NextRules ==
  \/ \E i \in 1 .. Len(Openings) : PlayOpening(i)
  \/ \E col \in ColIdx : MakeMove(col)

SpecRules == Init /\ [][NextRules]_vars

NextMisuse ==
  \/ \E i \in 1 .. Len(Openings) : PlayOpening(i)
  \/ \E col \in ColIdx : MakeMove(col)
  \/ \E col \in ColIdx : MakeMoveFull(col)

SpecMisuse == Init /\ [][NextMisuse]_vars

(* ------------------------------ properties ----------------------------- *)
LineDirs == {<<0, 1>>, <<1, 0>>, <<1, 1>>, <<1, -1>>}

InGrid(r, c) == r \in RowIdx /\ c \in ColIdx

\* the cell (r, c) lies on four cells in a line that all belong to its owner
OnRunOfFour(board, r, c) ==
  \E d \in LineDirs : \E off \in 0 .. 3 :
    \A i \in 0 .. 3 :
      /\ InGrid(r + (i - off) * d[1], c + (i - off) * d[2])
      /\ board[r + (i - off) * d[1]][c + (i - off) * d[2]] = board[r][c]

FourAnywhere(board) ==
  \E r \in RowIdx : \E c \in ColIdx : board[r][c] # 0 /\ OnRunOfFour(board, r, c)

Occupied(board) == Cardinality({rc \in RowIdx \X ColIdx : board[rc[1]][rc[2]] # 0})

Pieces(board, c) == Cardinality({r \in RowIdx : board[r][c] # 0})

AvailableSet(s) == {available_moves(s)[i] : i \in 1 .. Len(available_moves(s))}

\* C1: whenever the piece just placed lies on a run of four or more cells of
\* the mover (horizontal, vertical or diagonal, the piece at an end or inside),
\* check_victory() returns the mover and is_game_over() is true.
C1_WinDetectedAnywhereOnRun ==
  (state.last_move # None /\ OnRunOfFour(state.board, state.last_move[1], state.last_move[2]))
    => /\ check_victory(state) = state.board[state.last_move[1]][state.last_move[2]]
       /\ is_game_over(state)

\* C2: after k legal make_move calls exactly k cells are non-empty and
\* current_player is player one iff k is even, player two otherwise.
C2_CellsAndTurn ==
  /\ Occupied(state.board) = k
  /\ state.current_player \in {PLAYERS.one, PLAYERS.two}
  /\ (state.current_player = PLAYERS.one) <=> (k % 2 = 0)

W_C2 ==
  /\ k = OpeningLen + 3
  /\ opening # 0
  /\ state.current_player = PLAYERS.one
  /\ Occupied(state.board) = 40

\* C3: available_moves() lists, in ascending order, exactly the columns whose
\* top cell is empty, which are exactly the columns with column_heights >= 0;
\* column_heights stays in [-1, ROWS - 1]; a column that holds ROWS pieces is
\* not reported, and a column that is not reported is never reported again.
C3_Reported ==
  LET av == available_moves(state) IN
  /\ \A i \in 1 .. Len(av) - 1 : av[i] < av[i + 1]
  /\ AvailableSet(state) = {c \in ColIdx : state.board[0][c] = 0}
  /\ AvailableSet(state) = {c \in ColIdx : state.column_heights[c] >= 0}
  /\ \A c \in ColIdx : state.column_heights[c] \in -1 .. ROWS - 1
  /\ \A c \in ColIdx : Pieces(state.board, c) = ROWS => c \notin AvailableSet(state)

C3_AvailableMoves ==
  /\ []C3_Reported
  /\ [][\A c \in ColIdx : c \notin AvailableSet(state) => c \notin AvailableSet(state')]_vars

W_C3 ==
  /\ \E c \in ColIdx : Pieces(state.board, c) = ROWS /\ state.column_heights[c] = -1
  /\ \E c \in ColIdx : Pieces(state.board, c) = ROWS - 1 /\ state.column_heights[c] = 0
  /\ Len(available_moves(state)) = 2

\* C4: make_move on a full column raises an error and leaves the grid,
\* column_heights, current_player and last_move unchanged.
C4_FullColumnRejected ==
  [][\A col \in ColIdx :
       (state.column_heights[col] < 0 /\ MakeMoveFull(col))
         => (raised' # "none" /\ state' = state)]_vars

\* C5: get_winner() on a state where is_game_over() is false signals a
\* precondition violation: it returns none of player-one, player-two, draw.
C5_NoOutcomeBeforeTerminal ==
  ~is_game_over(state) =>
    get_winner(state) \notin {OUTCOMES.one, OUTCOMES.two, OUTCOMES.draw}

\* C6: on a full board without a four-in-a-row of either player,
\* is_game_over() is true and get_winner() returns draw.
C6_FullBoardDraw ==
  (available_moves(state) = <<>> /\ ~FourAnywhere(state.board))
    => (is_game_over(state) /\ get_winner(state) = OUTCOMES.draw)

W_C6 ==
  /\ k = ROWS * COLS
  /\ available_moves(state) = <<>>
  /\ ~FourAnywhere(state.board)
  /\ get_winner(state) = OUTCOMES.draw

ChildVisitSum(ns, n) ==
  LET RECURSIVE Sum(_)
      Sum(S) == IF S = {} THEN 0
                ELSE LET c == CHOOSE x \in S : TRUE IN ns[c].visit_count + Sum(S \ {c})
  IN Sum(ChildIds(ns, n))

Returns == pc = "search" /\ pc' = "idle"

\* C7: every run_search call completes at least one iteration before it
\* returns, for any time_limit: rollout_count is larger than when it was called.
C7_AtLeastOneIteration == [][Returns => rollout_count' > run_start]_vars

\* C8 (as stated): whenever run_search returns with a non-terminal root state,
\* the visit_counts of the root's children add up to rollout_count.
C8_RootChildrenSumAlways ==
  [][(Returns /\ ~is_game_over(root_state'))
       => ChildVisitSum(nodes', root_node') = rollout_count']_vars

\* C8 (amended): whenever run_search returns with a non-terminal root state and
\* perform_move has not been called since the engine was constructed, the
\* visit_counts of the root's children add up to rollout_count.
C8_RootChildrenSum ==
  [][(Returns /\ ~is_game_over(root_state') /\ performed' = 0)
       => ChildVisitSum(nodes', root_node') = rollout_count']_vars

W_C8 ==
  /\ pc = "idle"
  /\ performed = 0
  /\ ~is_game_over(root_state)
  /\ rollout_count >= 3
  /\ ChildVisitSum(nodes, root_node) = rollout_count

RECURSIVE Subtree(_, _)
Subtree(ns, n) == {n} \cup UNION {Subtree(ns, c) : c \in ChildIds(ns, n)}

\* C9: perform_move(action) makes the old root's child for action the new root,
\* with its counts and its whole subtree unchanged, when the old root has such
\* a child; otherwise the new root is a fresh node with visit_count 0,
\* win_count 0 and no children.
C9_PerformMoveReusesTree ==
  [][performed' # performed =>
       LET action == state'.last_move[2] IN
       IF action \in DOMAIN nodes[root_node].children
       THEN /\ root_node' = nodes[root_node].children[action]
            /\ Subtree(nodes', root_node') = Subtree(nodes, root_node')
            /\ \A n \in Subtree(nodes, root_node') : nodes'[n] = nodes[n]
       ELSE /\ nodes'[root_node'].visit_count = 0
            /\ nodes'[root_node'].win_count = 0
            /\ DOMAIN nodes'[root_node'].children = {}
            /\ nodes'[root_node'].parent_node = 0]_vars

W_C9 ==
  /\ performed > 0
  /\ pc = "idle"
  /\ nodes[root_node].parent_node # 0
  /\ nodes[root_node].visit_count >= 2
  /\ DOMAIN nodes[root_node].children # {}

\* C10: when the caller applies every move to its own state and to the engine,
\* the engine's root_state equals the caller's state.
C10_RootStateInSync == pc # "init" => root_state = state

W_C10 ==
  /\ performed >= 2
  /\ rollout_count >= 1
  /\ nodes[root_node].parent_node = 0
  /\ root_state = state
  /\ state.last_move # None /\ k = OpeningLen + performed

SearchStep == pc \in {"search", "playout"}

\* C11: search works on scratch copies only: no step of run_search changes the
\* engine's root_state or the caller's state; root_state is the caller's state
\* at construction and afterwards changes only by perform_move's own make_move,
\* whatever the caller does to its state.
C11_ScratchCopiesOnly ==
  /\ [][SearchStep => (root_state' = root_state /\ state' = state)]_vars
  /\ [][(pc = "init" /\ pc' = "idle") => (root_state' = state /\ state' = state)]_vars
  /\ [][performed' # performed
          => root_state' = make_move(root_state, state'.last_move[2])]_vars

W_C11 ==
  /\ pc = "playout"
  /\ rollout_count >= 1
  /\ Occupied(game_state.board) >= Occupied(root_state.board) + 2
  /\ root_state = state

\* C12: determine_best_move() never fails; it returns -1 when the root state is
\* terminal and otherwise a column that is legal in the root state and whose
\* child has the largest visit_count among the root's children.
C12_BestMoveNeverFails ==
  pc = "idle" =>
    /\ ~determine_best_move_raises
    /\ determine_best_move # {}
    /\ is_game_over(root_state) => determine_best_move = {-1}
    /\ ~is_game_over(root_state) =>
         \A a \in determine_best_move :
           /\ a \in AvailableSet(root_state)
           /\ a \in DOMAIN nodes[root_node].children
           /\ \A c \in ChildIds(nodes, root_node) :
                nodes[c].visit_count <= nodes[nodes[root_node].children[a]].visit_count

BackpropStep == pc = "playout" /\ pc' = "search"

RECURSIVE PathToRoot(_, _, _)
PathToRoot(ns, n, root) ==
  IF n = 0 THEN {}
  ELSE IF n = root THEN {n}
  ELSE {n} \cup PathToRoot(ns, ns[n].parent_node, root)

Other(player) == IF player = PLAYERS.one THEN PLAYERS.two ELSE PLAYERS.one

\* the player about to move in the position of node n, at or below the root
ToMoveAt(ns, n) ==
  IF Cardinality(PathToRoot(ns, n, root_node)) % 2 = 1
  THEN root_state.current_player ELSE Other(root_state.current_player)

\* C13: when the rollout outcome is a draw, backpropagation changes no
\* win_count in the tree, the reached node's included.
C13_DrawCreditsNothing ==
  [][(BackpropStep /\ get_winner(game_state) = OUTCOMES.draw)
       => \A n \in 1 .. Len(nodes) : nodes'[n].win_count = nodes[n].win_count]_vars

\* C14: for a rollout won by a player, the reward added to win_count of each
\* node on the path is 1 exactly when the player about to move at that node is
\* the winner, and 0 otherwise.
C14_RewardFollowsWinner ==
  [][(BackpropStep /\ get_winner(game_state) \in {OUTCOMES.one, OUTCOMES.two})
       => \A n \in PathToRoot(nodes, node, root_node) :
            nodes'[n].win_count - nodes[n].win_count
              = IF ToMoveAt(nodes, n) = get_winner(game_state) THEN 1 ELSE 0]_vars

\* C15: an iteration adds exactly 1 to visit_count of exactly the nodes on the
\* path from the reached node up to the current root and changes the counts of
\* no other node, also after perform_move advanced the root to a child.
C15_OnlyPathToRootCounted ==
  [][BackpropStep =>
       \A n \in 1 .. Len(nodes) :
         IF n \in PathToRoot(nodes, node, root_node)
         THEN nodes'[n].visit_count = nodes[n].visit_count + 1
         ELSE /\ nodes'[n].visit_count = nodes[n].visit_count
              /\ nodes'[n].win_count = nodes[n].win_count]_vars

\* C16: every node has 0 <= win_count <= visit_count, and a node that has just
\* been created has both counts 0.
C16_CountsInRange ==
  \A n \in 1 .. Len(nodes) :
    0 <= nodes[n].win_count /\ nodes[n].win_count <= nodes[n].visit_count

C16_WinsWithinVisits ==
  /\ []C16_CountsInRange
  /\ [][\A n \in 1 .. Len(nodes') :
          (\/ n > Len(nodes)
           \/ /\ performed' # performed
              /\ n = root_node'
              /\ root_node' \notin ChildIds(nodes, root_node))
            => (nodes'[n].visit_count = 0 /\ nodes'[n].win_count = 0)]_vars

W_C16 ==
  /\ Len(nodes) >= 4
  /\ \E n \in 1 .. Len(nodes) : nodes[n].visit_count >= 2 /\ nodes[n].win_count >= 1
  /\ \E n \in 1 .. Len(nodes) : nodes[n].visit_count >= 1 /\ nodes[n].win_count = 0
  /\ \E n \in 1 .. Len(nodes) : nodes[n].visit_count = 0

SelectStep == pc = "search" /\ pc' = "playout"

\* C17: no node of the tree under the root has a child visited twice while
\* another of its children is unvisited; selection passes only through visited
\* nodes below the root and, when it returns an unvisited child, returns it
\* without expanding anything.
C17_NoRevisitBeforeAllTried ==
  pc # "init" =>
    \A n \in Subtree(nodes, root_node) :
      \A c1 \in ChildIds(nodes, n) : \A c2 \in ChildIds(nodes, n) :
        ~(nodes[c1].visit_count >= 2 /\ nodes[c2].visit_count = 0)

RECURSIVE Position(_, _)
Position(ns, n) ==
  IF n = root_node THEN root_state
  ELSE make_move(Position(ns, ns[n].parent_node), ns[n].action)

\* the conditions of C18 on node n, whose position is pos, and on every node
\* under it
RECURSIVE ExpandedRight(_, _, _)
ExpandedRight(ns, n, pos) ==
  /\ \/ DOMAIN ns[n].children = {}
     \/ /\ DOMAIN ns[n].children = AvailableSet(pos)
        /\ ~is_game_over(pos)
  /\ \A a \in DOMAIN ns[n].children :
       /\ ns[ns[n].children[a]].action = a
       /\ ns[ns[n].children[a]].parent_node = n
       /\ ExpandedRight(ns, ns[n].children[a], make_move(pos, a))

C19_PlayoutState ==
  pc = "playout" =>
    /\ Occupied(game_state.board) <= ROWS * COLS
    /\ ~is_game_over(game_state) => available_moves(game_state) # <<>>
    /\ is_game_over(game_state) =>
         get_winner(game_state) \in {OUTCOMES.one, OUTCOMES.two, OUTCOMES.draw}

C19_PlayoutTerminates ==
  /\ []C19_PlayoutState
  /\ [][(pc = "playout" /\ pc' = "playout")
          => Occupied(game_state'.board) = Occupied(game_state.board) + 1]_vars

W_C19 ==
  /\ pc = "playout"
  /\ Occupied(game_state.board) = ROWS * COLS
  /\ Occupied(root_state.board) <= ROWS * COLS - 4
  /\ get_winner(game_state) = OUTCOMES.draw

\* C20: every node's visit_count is at least the sum of its children's
\* visit_counts, also after tree reuse; so a child with visit_count > 0 has a
\* parent with visit_count >= 1 and the logarithm in the UCT formula is
\* defined and not negative.
C20_ParentCoversChildren ==
  \A n \in 1 .. Len(nodes) :
    /\ nodes[n].visit_count >= ChildVisitSum(nodes, n)
    /\ \A c \in ChildIds(nodes, n) :
         nodes[c].visit_count > 0 =>
           /\ nodes[n].visit_count >= 1
           /\ nodes[n].visit_count \in DOMAIN LnScaled
           /\ LnScaled[nodes[n].visit_count] >= 0

W_C20 ==
  /\ performed >= 1
  /\ nodes[root_node].parent_node # 0
  /\ \E c \in ChildIds(nodes, root_node) : nodes[c].visit_count >= 1
  /\ nodes[root_node].visit_count = ChildVisitSum(nodes, root_node) + 1
  /\ nodes[nodes[root_node].parent_node].visit_count > nodes[root_node].visit_count

====
